---- MODULE Spec2Model ----
(***************************************************************************)
(* A model of txid_block_lookup.py: the resumable, rate-limited batch      *)
(* lookup of transaction ids (enrich_txids_with_block_info), its retry     *)
(* policy (robust_lookup), its rate gate (rate_limit_sleep) and its        *)
(* append-only progress store (load_existing_results,                      *)
(* save_results_incremental).                                              *)
(*                                                                         *)
(* Time is counted in microseconds.  An optional value (Python's None or a *)
(* value) is a sequence of length 0 or 1.                                  *)
(***************************************************************************)
EXTENDS Integers, Sequences, FiniteSets, TLC

(***************************************************************************)
(* Bounds of the model.                                                    *)
(***************************************************************************)
MaxIds == 2            \* distinct transaction ids of the general engine runs
MaxInput == 2          \* rows of the input file of the general engine runs
MaxRuns == 2           \* runs of the engine over the same store
MaxKeys == 7           \* rows of the input file of the checkpoint runs
MaxCheckpoint == 3     \* largest checkpoint_every of the checkpoint runs
MaxRetriesArg == 4     \* largest max_retries handed to robust_lookup
MaxRateKeys == 3       \* rows of the input file of the timing runs
MaxLiveRetries == 2    \* largest max_retries of the runs under fairness

(***************************************************************************)
(* Program constants.                                                      *)
(***************************************************************************)
DefaultMaxRetries == 5       \* robust_lookup(max_retries=5)
DefaultRate == 4             \* rate_limit_per_sec=4.0
TicksPerSec == 1000000       \* time.time() and time.sleep() count seconds

None == <<>>
Some(x) == <<x>>

Range(s) == {s[n] : n \in DOMAIN s}

(***************************************************************************)
(* Identifiers.  A cell of the identifier column is a transaction id as    *)
(* it is spelled in the file: possibly in upper case, possibly with        *)
(* surrounding whitespace; NaN is an empty cell.                           *)
(***************************************************************************)
Cell(n, up, pad) == [id |-> n, upper |-> up, pad |-> pad]
NaN == Cell(0, FALSE, FALSE)
Key(n) == Cell(n, FALSE, FALSE)

\* str.strip()
strip(c) == [c EXCEPT !.pad = FALSE]
\* str.lower()
lower(c) == [c EXCEPT !.upper = FALSE]

\* Series.dropna()
dropna(s) == SelectSeq(s, LAMBDA c : c # NaN)

\* every occurrence kept
keep_duplicates(s) == s

\* Series.drop_duplicates(): the first occurrence of every value, in order
RECURSIVE drop_duplicates(_)
drop_duplicates(s) ==
    IF s = <<>> THEN <<>>
    ELSE LET front == drop_duplicates(SubSeq(s, 1, Len(s) - 1))
             last  == s[Len(s)]
         IN IF last \in Range(front) THEN front ELSE Append(front, last)

MapSeq(f(_), s) == [n \in DOMAIN s |-> f(s[n])]

\* unique_txids_from_csv: dropna, strip, lower, drop_duplicates
unique_txids_from_csv(column) ==
    drop_duplicates(MapSeq(lower, MapSeq(strip, dropna(column))))

(***************************************************************************)
(* Lookup results and the progress store.                                  *)
(***************************************************************************)
Err(msg, arg) == Some([msg |-> msg, arg |-> arg])

NoBlockFields ==
    [block_height |-> None, block_time_unix |-> None,
     block_time_utc_iso |-> None, block_hash |-> None]

Record(txid, fields, error) ==
    [txid |-> txid,
     block_height |-> fields.block_height,
     block_time_unix |-> fields.block_time_unix,
     block_time_utc_iso |-> fields.block_time_utc_iso,
     block_hash |-> fields.block_hash,
     api_source |-> "blockstream",
     error |-> error]

\* iso_utc: None stays None, a timestamp becomes its ISO-8601 text
iso_utc(ts_unix) ==
    IF ts_unix = None THEN None ELSE Some([utc_iso_of |-> ts_unix[1]])

\* The lines of the store file.
HdrLine == [kind |-> "hdr", rec |-> None]
RecLine(r) == [kind |-> "rec", rec |-> Some(r)]
JunkLine == [kind |-> "junk", rec |-> None]
\* the header and a row of a table that has no txid column
OtherHdrLine == [kind |-> "otherhdr", rec |-> None]
OtherLine == [kind |-> "other", rec |-> None]
OtherRow == [other_columns |-> TRUE]

RecLines(recs) == [n \in DOMAIN recs |-> RecLine(recs[n])]

\* os.path.getsize(output_csv)
getsize(file) == Len(file.lines)

\* pd.read_csv of the store: fails on an unparseable line; the first line is
\* the header, every other line a row
Parseable(file) == \A n \in DOMAIN file.lines : file.lines[n].kind # "junk"
read_csv(file) ==
    LET body == SelectSeq(Tail(file.lines), LAMBDA l : l.kind \in {"rec", "other"})
    IN [n \in DOMAIN body |->
          IF body[n].kind = "rec" THEN body[n].rec[1] ELSE OtherRow]

\* load_existing_results: the rows of the store, or an empty frame when the
\* file is missing, zero-length or unreadable
load_existing_results(file) ==
    IF file.exists /\ getsize(file) > 0 /\ Parseable(file)
    THEN read_csv(file)
    ELSE <<>>

\* the frame load_existing_results returns has a txid column: the frame of
\* lines 90-92 has, a frame read from the file has the columns of its header
has_txid(file) ==
    IF file.exists /\ getsize(file) > 0 /\ Parseable(file)
    THEN file.lines[1].kind = "hdr"
    ELSE TRUE

\* the header is written by every append
write_header_always(file) == TRUE

\* save_results_incremental, line 95
write_header(file) == ~file.exists \/ getsize(file) = 0

\* save_results_incremental: append the rows, after a header on a fresh file
save_results_incremental(df_partial, file) ==
    [exists |-> TRUE,
     lines  |-> file.lines
                \o (IF write_header(file) THEN <<HdrLine>> ELSE <<>>)
                \o RecLines(df_partial)]

\* line 219: the keys already in the store
Have(existing) ==
    IF existing # <<>> THEN {lower(existing[n].txid) : n \in DOMAIN existing}
    ELSE {}

\* nothing skipped
ToFetchAll(txids, have) == txids

\* line 222: the keys still to fetch
ToFetch(txids, have) == SelectSeq(txids, LAMBDA t : t \notin have)

(***************************************************************************)
(* The rate gate.                                                          *)
(***************************************************************************)
\* the gate that never sleeps
rate_limit_none(last_call_ts, rate_limit_per_sec, now) == 0

\* rate_limit_sleep: the time the gate asks time.sleep for
rate_limit_sleep(last_call_ts, rate_limit_per_sec, now) ==
    IF rate_limit_per_sec <= 0 THEN 0
    ELSE LET min_interval == TicksPerSec \div rate_limit_per_sec
             elapsed == now - last_call_ts
         IN IF elapsed < min_interval THEN min_interval - elapsed ELSE 0

(***************************************************************************)
(* The lookup client and the retry policy.                                 *)
(***************************************************************************)
\* The "status" object of an Esplora transaction.
EmptyStatus ==
    [empty |-> TRUE, confirmed |-> FALSE,
     block_height |-> None, block_time |-> None, block_hash |-> None]
Unconfirmed == [EmptyStatus EXCEPT !.empty = FALSE]
ConfirmedIn(txid) ==
    [empty |-> FALSE, confirmed |-> TRUE,
     block_height |-> Some(400000 + txid.id),
     block_time |-> Some(1470000000 + txid.id),
     block_hash |-> Some([hash_of_block |-> 400000 + txid.id])]

Json(has_status, status) == [has_status |-> has_status, status |-> status]

\* What one call of fetch_tx_info_esplora can end in.
Ok(tx_json) == [kind |-> "ok", code |-> 200, tx_json |-> tx_json]
HTTPError(code) ==
    [kind |-> "http", code |-> code, tx_json |-> Json(FALSE, EmptyStatus)]
NetworkError == [kind |-> "network", code |-> 0, tx_json |-> Json(FALSE, EmptyStatus)]
OtherError == [kind |-> "unexpected", code |-> 0, tx_json |-> Json(FALSE, EmptyStatus)]

Retryable == {"429", "500", "503", "noresponse", "network"}
Terminal == {"404", "400", "499", "unexpected"}
Successes == {"confirmed", "unconfirmed", "nostatus", "emptystatus"}
OutcomeNames == Successes \cup Terminal \cup Retryable

\* fetch_tx_info_esplora: the outcome of the call, by its name.  An HTTPError
\* without a response has no status code (0 here).
fetch_tx_info_esplora(txid, name) ==
    CASE name = "confirmed"   -> Ok(Json(TRUE, ConfirmedIn(txid)))
      [] name = "unconfirmed" -> Ok(Json(TRUE, Unconfirmed))
      [] name = "nostatus"    -> Ok(Json(FALSE, EmptyStatus))
      [] name = "emptystatus" -> Ok(Json(TRUE, EmptyStatus))
      [] name = "404"         -> HTTPError(404)
      [] name = "400"         -> HTTPError(400)
      [] name = "499"         -> HTTPError(499)
      [] name = "429"         -> HTTPError(429)
      [] name = "500"         -> HTTPError(500)
      [] name = "503"         -> HTTPError(503)
      [] name = "noresponse"  -> HTTPError(0)
      [] name = "network"     -> NetworkError
      [] OTHER                -> OtherError

\* no block field is taken from the response
extract_nothing(tx_json) == NoBlockFields

\* zeros and not None for a transaction that is in no block
extract_zeros(tx_json) ==
    [block_height |-> Some(0), block_time_unix |-> Some(0),
     block_time_utc_iso |-> iso_utc(Some(0)), block_hash |-> None]

\* extract_block_fields_from_esplora
extract_block_fields_from_esplora(tx_json) ==
    LET status == IF tx_json.has_status THEN tx_json.status ELSE EmptyStatus
    IN IF status.empty \/ ~status.confirmed
       THEN NoBlockFields
       ELSE [block_height |-> status.block_height,
             block_time_unix |-> status.block_time,
             block_time_utc_iso |-> iso_utc(status.block_time),
             block_hash |-> status.block_hash]

\* only a 404 is final
FinalOnly404(status_code) == status_code = 404

\* robust_lookup, lines 161 and 166: the HTTP statuses that are final
FinalStatus(status_code) ==
    \/ status_code = 404
    \/ status_code # 0 /\ 400 <= status_code /\ status_code < 500
       /\ status_code # 429

\* gives up one attempt early
ExhaustedEarly(attempt, max_retries) == attempt >= max_retries

\* robust_lookup, lines 172 and 180
Exhausted(attempt, max_retries) == attempt > max_retries

\* robust_lookup, lines 176 and 184, with backoff_base = 0.8:
\* (0.8 ** attempt) * (1.5 + (attempt % 3) * 0.2) seconds
sleep_s(attempt) ==
    LET tenths == (8 ^ attempt) * (15 + (attempt % 3) * 2)
        scale == 10 ^ (attempt + 1)
    IN IF scale <= TicksPerSec THEN tenths * (TicksPerSec \div scale)
       ELSE tenths \div (scale \div TicksPerSec)

Returns(r, a) == [returned |-> TRUE, rec |-> r, attempt |-> a, sleep |-> 0]
Retries(txid, a) ==
    [returned |-> FALSE, rec |-> Record(txid, NoBlockFields, None),
     attempt |-> a, sleep |-> sleep_s(a)]

\* robust_lookup: one turn of its loop, for the outcome of the call it makes
robust_lookup(txid, attempt, max_retries, out) ==
    CASE out.kind = "ok" ->
           Returns(Record(txid, extract_block_fields_from_esplora(out.tx_json), None),
                   attempt)
      [] out.kind = "http" /\ FinalStatus(out.code) ->
           Returns(Record(txid, NoBlockFields,
                          IF out.code = 404 THEN Err("404 Not Found", 0)
                          ELSE Err("HTTP", out.code)),
                   attempt)
      [] out.kind = "http" /\ ~FinalStatus(out.code) ->
           IF Exhausted(attempt + 1, max_retries)
           THEN Returns(Record(txid, NoBlockFields,
                               Err("HTTP error after retries", max_retries)),
                        attempt + 1)
           ELSE Retries(txid, attempt + 1)
      [] out.kind = "network" ->
           IF Exhausted(attempt + 1, max_retries)
           THEN Returns(Record(txid, NoBlockFields,
                               Err("Network/Timeout after retries", max_retries)),
                        attempt + 1)
           ELSE Retries(txid, attempt + 1)
      [] OTHER ->
           Returns(Record(txid, NoBlockFields, Err("Unexpected", 0)), attempt)

(***************************************************************************)
(* The batch engine.                                                       *)
(***************************************************************************)
\* a checkpoint only at the end of the work list
CheckpointAtEndOnly(i, n, checkpoint_every) == i = n

\* line 239
CheckpointDue(i, n, checkpoint_every) ==
    (i % checkpoint_every = 0) \/ (i = n)

\* no flush on the way out
FlushNever(results_batch) == FALSE

\* line 246
FlushDue(results_batch) == results_batch # <<>>

\* lines 53-57
API_BASES == {"blockstream", "mempool"}

\* no configuration is rejected
ConfigAccepted(api_source, has_column) == FALSE

\* lines 209-211 and 72-73: the ValueError of a backend that is not in the
\* registry, or of an input file without the identifier column
ConfigError(api_source, has_column) ==
    IF lower(strip(api_source)).id \notin API_BASES THEN TRUE ELSE ~has_column

\* line 258: the rows the left join makes of one input row
merge_row(cell, final_df) ==
    LET hits == SelectSeq(final_df, LAMBDA r : r.txid = cell)
    IN IF hits = <<>>
       THEN <<[cell |-> cell, lookup |-> None]>>
       ELSE [n \in DOMAIN hits |-> [cell |-> cell, lookup |-> Some(hits[n])]]

RECURSIVE merge(_, _)
\* lines 257-258: src.merge(final_df, how="left", left_on=txid_column,
\* right_on="txid"), the cells of the input as they are against the stored keys
merge(src, final_df) ==
    IF src = <<>> THEN <<>>
    ELSE merge_row(Head(src), final_df) \o merge(Tail(src), final_df)

VARIABLES
    cfg,            \* the arguments of enrich_txids_with_block_info
    env,            \* what the remote service, the clock and the user may do
    pc,             \* where enrich_txids_with_block_info stands
    store,          \* the file output_csv
    clock,          \* time.time()
    to_fetch,       \* line 222
    i,              \* line 230
    results_batch,  \* line 226
    last_call_ts,   \* line 227
    attempt,        \* robust_lookup's counter, line 151
    rec,            \* line 235: the record of the current key, once returned
    final_df,       \* line 252
    runs,           \* history: runs started
    aborted,        \* history: this run was interrupted
    prevDone,       \* history: the run before this one completed
    store0,         \* history: the store when this run started
    looked,         \* history: the keys robust_lookup was called for, this run
    accum,          \* history: the records appended to results_batch, this run
    writes,         \* history: the writes to the store, this run
    gates,          \* history: the releases of the rate gate, this run
    calls,          \* history: the outcomes of the calls for the current key
    sleeps,         \* history: the backoff sleeps for the current key
    appended,       \* history: every record ever written to the store
    merged,         \* the file merged_output_csv, once written
    reqs,           \* history: when the last two calls of this run were sent
    naps,           \* history: the backoff sleeps for the current key
    loaded,         \* history: this run has read the store
    first_store     \* history: the store before the first run

vars == <<cfg, env, pc, store, clock, to_fetch, i, results_batch, last_call_ts,
          attempt, rec, final_df, runs, aborted, prevDone, store0, looked,
          accum, writes, gates, calls, sleeps, appended, merged, reqs, naps,
          loaded, first_store>>

config == <<cfg, env, first_store>>

\* the loop ends after its first key
NextIterStops(n) == "finally"

\* line 230: the loop goes on to the next key, or ends
NextIter(n) == IF n < Len(to_fetch) THEN "gate" ELSE "finally"

\* lines 209-227: a run starts
StartRun ==
    /\ pc \in {"idle", "done", "exited", "failed"}
    /\ runs < env.runs
    /\ LET rejected == ConfigError(cfg.api_source, cfg.has_txid_column)
           txids == unique_txids_from_csv(cfg.input)
           existing == load_existing_results(store)
           \* line 219: existing["txid"] of a frame without that column
           key_error == IF existing = <<>> THEN FALSE ELSE ~has_txid(store)
           raised == IF rejected THEN TRUE ELSE key_error
       IN /\ loaded' = ~rejected
          /\ to_fetch' = IF raised THEN <<>> ELSE ToFetch(txids, Have(existing))
          /\ pc' = IF raised THEN "failed"
                   ELSE IF to_fetch' = <<>> THEN "finally" ELSE "gate"
    /\ results_batch' = <<>>
    /\ last_call_ts' = 0
    /\ i' = 0
    /\ runs' = runs + 1
    /\ aborted' = FALSE
    /\ prevDone' = (pc = "done")
    /\ store0' = store
    /\ looked' = <<>>
    /\ accum' = <<>>
    /\ writes' = <<>>
    /\ gates' = <<>>
    /\ calls' = <<>>
    /\ sleeps' = 0
    /\ rec' = None
    /\ reqs' = <<>>
    /\ naps' = <<>>
    /\ UNCHANGED <<config, store, clock, attempt, final_df, appended, merged>>

\* lines 230-235: the next key passes the rate gate and robust_lookup is
\* entered; time.sleep returns on time or late
Gate ==
    /\ pc = "gate"
    /\ \E over \in env.overshoots :
         LET d == rate_limit_sleep(last_call_ts, cfg.rate_limit_per_sec, clock)
             woke == IF d > 0 THEN clock + d + over ELSE clock
         IN /\ clock' = woke
            /\ last_call_ts' = woke
            /\ gates' = Append(gates, [release |-> woke, slept |-> woke - clock])
    /\ i' = i + 1
    /\ looked' = Append(looked, to_fetch[i + 1])
    /\ attempt' = 0
    /\ rec' = None
    /\ calls' = <<>>
    /\ sleeps' = 0
    /\ naps' = <<>>
    /\ pc' = "lookup"
    /\ UNCHANGED <<config, store, to_fetch, results_batch, final_df, runs,
                   aborted, prevDone, store0, accum, writes, appended, merged,
                   reqs, loaded>>

\* what the remote service may answer to the next call for the current key: it
\* fails in a retryable way at most env.failures times per key
Answers ==
    IF Len(calls) < env.failures THEN env.outcomes ELSE env.outcomes \ Retryable

\* lines 152-190 and 236: one call of the lookup client and what robust_lookup
\* makes of it: a record, appended to the batch, or a backoff sleep
Lookup ==
    /\ pc = "lookup"
    /\ \E name \in Answers, dur \in env.durations :
         LET txid == to_fetch[i]
             turn == robust_lookup(txid, attempt, cfg.max_retries,
                                   fetch_tx_info_esplora(txid, name))
         IN /\ calls' = Append(calls, name)
            /\ reqs' = IF reqs = <<>> THEN <<clock>>
                       ELSE <<reqs[Len(reqs)], clock>>
            /\ naps' = IF turn.returned THEN naps ELSE Append(naps, turn.sleep)
            /\ attempt' = turn.attempt
            /\ clock' = clock + dur + turn.sleep
            /\ IF turn.returned
               THEN /\ rec' = Some(turn.rec)
                    /\ results_batch' = Append(results_batch, turn.rec)
                    /\ accum' = Append(accum, turn.rec)
                    /\ sleeps' = sleeps
                    /\ pc' = "ckpt"
               ELSE /\ sleeps' = sleeps + 1
                    /\ pc' = "lookup"
                    /\ UNCHANGED <<rec, results_batch, accum>>
    /\ UNCHANGED <<config, store, to_fetch, i, last_call_ts, final_df, runs,
                   aborted, prevDone, store0, looked, writes, gates, appended,
                   merged, loaded>>

Written(by, rows) == [after |-> Len(accum), rows |-> Len(rows), by |-> by]

\* lines 239-241: the periodic checkpoint writes the batch
Checkpoint ==
    /\ pc = "ckpt"
    /\ IF CheckpointDue(i, Len(to_fetch), cfg.checkpoint_every)
       THEN /\ store' = save_results_incremental(results_batch, store)
            /\ writes' = Append(writes, Written("checkpoint", results_batch))
            /\ appended' = appended \cup Range(results_batch)
            /\ pc' = "clear"
       ELSE /\ pc' = NextIter(i)
            /\ UNCHANGED <<store, writes, appended>>
    /\ UNCHANGED <<config, clock, to_fetch, i, results_batch, last_call_ts,
                   attempt, rec, final_df, runs, aborted, prevDone, store0,
                   looked, accum, gates, calls, sleeps, merged, reqs, naps,
                   loaded>>

\* line 243
Clear ==
    /\ pc = "clear"
    /\ results_batch' = <<>>
    /\ pc' = NextIter(i)
    /\ UNCHANGED <<config, store, clock, to_fetch, i, last_call_ts, attempt,
                   rec, final_df, runs, aborted, prevDone, store0, looked,
                   accum, writes, gates, calls, sleeps, appended, merged, reqs,
                   naps, loaded>>

\* An exception or an interrupt in the loop body: in the rate-limit wait, in a
\* lookup (the record of the current key is then never appended), in a
\* checkpoint (to_csv has then written nothing, or the header and some of the
\* rows) or after the checkpoint's write and before the batch is cleared.
Abort ==
    /\ pc \in {"gate", "lookup", "ckpt", "clear"}
    /\ \E touched \in BOOLEAN, j \in 0 .. Len(results_batch) :
         LET part == SubSeq(results_batch, 1, j)
         IN /\ touched =>
                 /\ pc = "ckpt"
                 /\ CheckpointDue(i, Len(to_fetch), cfg.checkpoint_every)
                 /\ j < Len(results_batch)
            /\ ~touched => j = 0
            /\ store' = IF touched THEN save_results_incremental(part, store)
                        ELSE store
            /\ writes' = IF touched THEN Append(writes, Written("partial", part))
                         ELSE writes
            /\ appended' = appended \cup Range(part)
    /\ aborted' = TRUE
    /\ pc' = "finally"
    /\ UNCHANGED <<config, clock, to_fetch, i, results_batch, last_call_ts,
                   attempt, rec, final_df, runs, prevDone, store0, looked,
                   accum, gates, calls, sleeps, merged, reqs, naps, loaded>>

\* lines 244-261: the flush on the way out; then the exception goes on to the
\* caller, or the store is loaded again and, if asked for, joined to the input
\* (a KeyError when the frame loaded has no txid column)
Finally ==
    /\ pc = "finally"
    /\ IF FlushDue(results_batch)
       THEN /\ store' = save_results_incremental(results_batch, store)
            /\ writes' = Append(writes, Written("flush", results_batch))
            /\ appended' = appended \cup Range(results_batch)
       ELSE UNCHANGED <<store, writes, appended>>
    /\ IF aborted
       THEN /\ pc' = "exited"
            /\ UNCHANGED <<final_df, merged>>
       ELSE /\ final_df' = load_existing_results(store')
            /\ IF cfg.merged_output_csv
               THEN IF has_txid(store')
                    THEN /\ merged' = Some(merge(cfg.input, final_df'))
                         /\ pc' = "done"
                    ELSE /\ merged' = merged
                         /\ pc' = "failed"
               ELSE /\ merged' = merged
                    /\ pc' = "done"
    /\ UNCHANGED <<config, clock, to_fetch, i, results_batch, last_call_ts,
                   attempt, rec, runs, aborted, prevDone, store0, looked,
                   accum, gates, calls, sleeps, reqs, naps, loaded>>

Next == StartRun \/ Gate \/ Lookup \/ Checkpoint \/ Clear \/ Abort \/ Finally

(***************************************************************************)
(* Initial states: the configuration of the run, what the remote service   *)
(* and the clock may do, and the store file the first run finds.           *)
(***************************************************************************)
SeqsUpTo(S, n) == UNION {[1 .. m -> S] : m \in 0 .. n}

KeysUpTo(n) == [m \in 1 .. n |-> Key(m)]

\* what a cell of the identifier column may hold: empty, or a key as it is, in
\* upper case or with whitespace around it
Cells ==
    {NaN} \cup {Cell(n, f[1], f[2]) :
                  n \in 1 .. MaxIds,
                  f \in {<<FALSE, FALSE>>, <<TRUE, FALSE>>, <<FALSE, TRUE>>}}

\* the record a finished run left in the store for a key
StoredRecord(txid, name) ==
    robust_lookup(txid, DefaultMaxRetries, DefaultMaxRetries,
                  fetch_tx_info_esplora(txid, name)).rec

Missing == [exists |-> FALSE, lines |-> <<>>]
ZeroLength == [exists |-> TRUE, lines |-> <<>>]
HeaderOnly == [exists |-> TRUE, lines |-> <<HdrLine>>]
ValidStore(n, name) ==
    [exists |-> TRUE,
     lines |-> <<HdrLine>>
               \o [m \in 1 .. n |-> RecLine(StoredRecord(Key(m), name))]]
Corrupted(file) == [file EXCEPT !.lines = Append(@, JunkLine)]

ReadableStores ==
    {Missing, ZeroLength, HeaderOnly, ValidStore(MaxIds, "confirmed")}
    \cup {ValidStore(1, name) : name \in {"404", "400", "503", "unexpected"}}
CorruptStores == {Corrupted(ValidStore(1, "confirmed"))}

StartClock == 2 * TicksPerSec

\* the default of api_source, line 200, and other ways to name a backend
Blockstream == Cell("blockstream", FALSE, FALSE)
ApiSources == {Blockstream, Cell("blockstream", TRUE, TRUE), Cell("esplora", FALSE, FALSE)}

InitFrom(cfgs, envs, stores) ==
    /\ cfg \in cfgs
    /\ env \in envs
    /\ store \in stores
    /\ merged = None
    /\ reqs = <<>>
    /\ naps = <<>>
    /\ loaded = FALSE
    /\ first_store = store
    /\ pc = "idle"
    /\ clock = StartClock
    /\ to_fetch = <<>>
    /\ i = 0
    /\ results_batch = <<>>
    /\ last_call_ts = 0
    /\ attempt = 0
    /\ rec = None
    /\ final_df = <<>>
    /\ runs = 0
    /\ aborted = FALSE
    /\ prevDone = FALSE
    /\ store0 = store
    /\ looked = <<>>
    /\ accum = <<>>
    /\ writes = <<>>
    /\ gates = <<>>
    /\ calls = <<>>
    /\ sleeps = 0
    /\ appended = {}

Env(outs, fails, durs, overs, nruns) ==
    [outcomes |-> outs, failures |-> fails, durations |-> durs,
     overshoots |-> overs, runs |-> nruns]

InitWith(inputs, stores, cps, rates, retries, outs, fails, durs, overs, nruns) ==
    InitFrom([input : inputs, checkpoint_every : cps, rate_limit_per_sec : rates,
              max_retries : retries, api_source : {Blockstream},
              has_txid_column : {TRUE}, merged_output_csv : {FALSE}],
             {Env(outs, fails, durs, overs, nruns)}, stores)

\* The engine over the keys of MaxIds transactions, in any order and with
\* repetitions, and over any store; a run may be interrupted and run again.
Init ==
    InitWith(SeqsUpTo({Key(n) : n \in 1 .. MaxIds}, MaxInput),
             ReadableStores \cup CorruptStores,
             1 .. 2, {0}, {DefaultMaxRetries},
             {"confirmed", "404"}, 0, {0}, {0}, MaxRuns)

Spec == Init /\ [][Next]_vars

\* The engine over input files that spell their keys in any way.
InitSpelling ==
    InitWith(SeqsUpTo(Cells, MaxInput),
             {Missing, ZeroLength, HeaderOnly, ValidStore(1, "404")},
             1 .. 2, {DefaultRate}, {DefaultMaxRetries},
             {"confirmed", "404"}, 0, {0}, {0}, 1)

SpecSpelling == InitSpelling /\ [][Next]_vars

\* robust_lookup with every outcome of every call, for one key.
InitLookup ==
    InitWith({<<Key(1)>>}, {Missing}, {1}, {DefaultRate},
             (0 .. MaxRetriesArg) \cup {DefaultMaxRetries}, OutcomeNames,
             MaxRetriesArg + DefaultMaxRetries + 1, {0}, {0}, 1)

SpecLookup == InitLookup /\ [][Next]_vars

\* Checkpointing over longer work lists.
InitCheckpoint ==
    InitWith({KeysUpTo(n) : n \in 0 .. MaxKeys}, {Missing, ValidStore(1, "404")},
             1 .. MaxCheckpoint, {DefaultRate}, {DefaultMaxRetries},
             {"confirmed", "404"}, 0, {0}, {0}, 1)

SpecCheckpoint == InitCheckpoint /\ [][Next]_vars

\* The rate gate with calls that take 20 ms or 300 ms, a service that answers
\* 429 at most twice per key, and sleeps that end late.
InitRate ==
    InitWith({KeysUpTo(n) : n \in 0 .. MaxRateKeys}, {Missing},
             {1, 2}, {-1, 0, 1, DefaultRate}, {DefaultMaxRetries},
             {"confirmed", "429"}, 2, {20000, 300000}, {0, 50000}, 1)

SpecRate == InitRate /\ [][Next]_vars

\* The steps of a run are taken as long as the process lives: a run that is
\* not interrupted goes on.  Over keys that fail, for good or for a while.
InitLive ==
    InitWith({KeysUpTo(n) : n \in 0 .. MaxIds}, {Missing}, 1 .. 2, {0},
             0 .. MaxLiveRetries,
             {"confirmed", "404", "503", "unexpected"},
             MaxLiveRetries + 1, {0}, {0}, 1)

Live ==
    /\ WF_vars(StartRun)
    /\ WF_vars(Gate)
    /\ WF_vars(Lookup)
    /\ WF_vars(Checkpoint)
    /\ WF_vars(Clear)
    /\ WF_vars(Finally)

SpecLive == InitLive /\ [][Next]_vars /\ Live

\* The engine asked for the merged output, over input files that spell their
\* keys in any way.
InitMerge ==
    InitFrom([input : SeqsUpTo(Cells, MaxInput), checkpoint_every : {1},
              rate_limit_per_sec : {DefaultRate}, max_retries : {DefaultMaxRetries},
              api_source : {Blockstream}, has_txid_column : {TRUE},
              merged_output_csv : {TRUE}],
             {Env({"confirmed", "404"}, 0, {0}, {0}, 1)},
             {Missing, ValidStore(1, "confirmed"),
              [exists |-> TRUE, lines |-> <<OtherHdrLine>>]})

SpecMerge == InitMerge /\ [][Next]_vars

\* the store file as a first run may find it
Unparseable == [exists |-> TRUE, lines |-> <<JunkLine>>]
OtherHeaderOnly == [exists |-> TRUE, lines |-> <<OtherHdrLine>>]
OtherTable == [exists |-> TRUE, lines |-> <<OtherHdrLine, OtherLine>>]
StoreStates ==
    {Missing, ZeroLength, HeaderOnly, Unparseable, OtherHeaderOnly, OtherTable,
     ValidStore(1, "confirmed"), Corrupted(ValidStore(1, "confirmed"))}

\* The engine called with any backend name and with input files with and
\* without the identifier column, over every state of the store file.
InitConfig ==
    InitFrom([input : {KeysUpTo(n) : n \in 0 .. MaxIds}, checkpoint_every : {1},
              rate_limit_per_sec : {DefaultRate}, max_retries : {DefaultMaxRetries},
              api_source : ApiSources, has_txid_column : BOOLEAN,
              merged_output_csv : BOOLEAN],
             {Env({"confirmed", "404"}, 0, {0}, {0}, MaxRuns)}, StoreStates)

SpecConfig == InitConfig /\ [][Next]_vars

\* The engine over every state of the store file; a run may be interrupted
\* and run again.
InitStore ==
    InitWith({KeysUpTo(n) : n \in 0 .. MaxIds}, StoreStates,
             1 .. 2, {0}, {DefaultMaxRetries},
             {"confirmed", "404"}, 0, {0}, {0}, MaxRuns)

SpecStore == InitStore /\ [][Next]_vars

(***************************************************************************)
(* What the properties speak of.                                           *)
(***************************************************************************)
\* the records in the lines of a store file
StoredRecords(file) ==
    [n \in {m \in DOMAIN file.lines : file.lines[m].kind = "rec"}
       |-> file.lines[n].rec[1]]
\* S: the keys a store file holds a record for
StoredKeys(file) == {StoredRecords(file)[n].txid : n \in DOMAIN StoredRecords(file)}
\* how many records a store file holds for a key
CountFor(file, k) ==
    Cardinality({n \in DOMAIN StoredRecords(file) : StoredRecords(file)[n].txid = k})
DuplicateFree(file) == \A k \in StoredKeys(file) : CountFor(file, k) = 1
\* K: the normalized keys of the input
InputKeys == {Key(c.id) : c \in Range(cfg.input) \ {NaN}}
NoRepeat(s) == \A a, b \in DOMAIN s : a # b => s[a] # s[b]
HasError(r) == r.error # None
NoBlock(r) ==
    /\ r.block_height = None
    /\ r.block_time_unix = None
    /\ r.block_time_utc_iso = None
    /\ r.block_hash = None

C3_NoDuplicatesAcrossRestarts ==
    (pc \in {"done", "exited"} /\ Parseable(store)) =>
        /\ appended \subseteq Range(load_existing_results(store))
        /\ NoRepeat([n \in DOMAIN load_existing_results(store)
                       |-> load_existing_results(store)[n].txid])

C5_Idempotence ==
    (runs >= 2 /\ prevDone) =>
        /\ looked = <<>>
        /\ store = store0

(***************************************************************************)
(* The calls robust_lookup has made for the current key.                   *)
(***************************************************************************)
AllIn(s, names) == \A n \in DOMAIN s : s[n] \in names
Front(s) == SubSeq(s, 1, Len(s) - 1)
ExhaustedRecord(txid, msg) ==
    Record(txid, NoBlockFields, Err(msg, cfg.max_retries))
\* the record of a confirmed transaction, field by field
ConfirmedRecord(txid) ==
    [txid |-> txid,
     block_height |-> Some(400000 + txid.id),
     block_time_unix |-> Some(1470000000 + txid.id),
     block_time_utc_iso |-> Some([utc_iso_of |-> 1470000000 + txid.id]),
     block_hash |-> Some([hash_of_block |-> 400000 + txid.id]),
     api_source |-> "blockstream",
     error |-> None]

(***************************************************************************)
(* C6  Retry exhaustion, as the claim states it (for max_retries >= 1, so  *)
(* that a first call is allowed).  While every call for a key has returned *)
(* a 503, robust_lookup has made at most max_retries calls, and after      *)
(* max_retries calls it has returned a record whose error tells of the     *)
(* exhaustion.                                                             *)
(***************************************************************************)
C6_NoCallBeyondMaxRetries ==
    (calls # <<>> /\ AllIn(calls, {"503"}) /\ cfg.max_retries >= 1) =>
        /\ Len(calls) <= cfg.max_retries
        /\ Len(calls) = cfg.max_retries =>
             rec = Some(ExhaustedRecord(to_fetch[i], "HTTP error after retries"))

(***************************************************************************)
(* C6  Retry exhaustion, amended.  While every call for a key has returned *)
(* a 503, robust_lookup has made at most max_retries + 1 calls (the first  *)
(* call and max_retries retries); it has not returned before the           *)
(* (max_retries + 1)-th call, and on that call it returns a record whose   *)
(* error tells of the exhaustion.                                          *)
(***************************************************************************)
C6_RetryExhaustion ==
    (calls # <<>> /\ AllIn(calls, {"503"})) =>
        /\ Len(calls) <= cfg.max_retries + 1
        /\ Len(calls) <= cfg.max_retries => rec = None
        /\ Len(calls) = cfg.max_retries + 1 =>
             /\ rec = Some(ExhaustedRecord(to_fetch[i], "HTTP error after retries"))
             /\ sleeps = cfg.max_retries

\* a key given up after two retries
C6_Witness ==
    /\ calls = <<"503", "503", "503">>
    /\ cfg.max_retries = 2
    /\ rec # None
    /\ pc = "done"

(***************************************************************************)
(* C7  Terminal failures are not retried.  When the first call for a key   *)
(* fails with 404, another 4xx that is not 429, or an unexpected           *)
(* exception, robust_lookup makes no second call and sleeps for no         *)
(* backoff; it returns a record of the key with error set and no block     *)
(* field, and that record is in the store when the run is over.            *)
(***************************************************************************)
C7_TerminalNotRetried ==
    (calls # <<>> /\ calls[1] \in Terminal) =>
        /\ Len(calls) = 1
        /\ sleeps = 0
        /\ rec # None
        /\ rec[1].txid = to_fetch[i]
        /\ HasError(rec[1])
        /\ NoBlock(rec[1])
        /\ pc \in {"done", "exited"} => RecLine(rec[1]) \in Range(store.lines)

\* a run that completed after a 404
C7_Witness ==
    /\ calls = <<"404">>
    /\ pc = "done"
    /\ store.lines = <<HdrLine,
                       RecLine(Record(Key(1), NoBlockFields, Err("404 Not Found", 0)))>>

(***************************************************************************)
(* C8  Retry then success.  After k <= max_retries retryable failures      *)
(* (429, 5xx, a connection failure or a timeout, in any mix) robust_lookup *)
(* has not given up; when the next call succeeds with a confirmed          *)
(* transaction it returns the record of that response, with every block    *)
(* field and error = None, after k + 1 calls.                              *)
(***************************************************************************)
C8_RetryThenSuccess ==
    /\ (calls # <<>> /\ AllIn(calls, Retryable) /\ Len(calls) <= cfg.max_retries)
         => rec = None
    /\ (calls # <<>> /\ AllIn(Front(calls), Retryable)
          /\ calls[Len(calls)] = "confirmed")
         => /\ Len(calls) - 1 <= cfg.max_retries
            /\ sleeps = Len(calls) - 1
            /\ attempt = Len(calls) - 1
            /\ rec = Some(ConfirmedRecord(to_fetch[i]))

\* three 429 and then a confirmed transaction
C8_Witness ==
    /\ calls = <<"429", "429", "429", "confirmed">>
    /\ rec # None
    /\ rec[1].error = None
    /\ ~NoBlock(rec[1])
    /\ pc = "done"

(***************************************************************************)
(* C9  Checkpointing.  In a run that is not interrupted, with c =          *)
(* checkpoint_every and n keys to fetch, the store is written after the    *)
(* resolutions c, 2c, 3c, ... and after resolution n and at no other time; *)
(* every write holds c records, but the last holds n mod c when that is    *)
(* not zero.                                                               *)
(***************************************************************************)
ExpectedWrites(c, n) ==
    [j \in 1 .. ((n + c - 1) \div c) |->
        [after |-> IF j * c <= n THEN j * c ELSE n,
         rows  |-> IF j * c <= n THEN c ELSE n % c]]

WritesSoFar == [n \in DOMAIN writes |-> [after |-> writes[n].after, rows |-> writes[n].rows]]

C9_Checkpointing ==
    (runs >= 1 /\ ~aborted) =>
        LET c == cfg.checkpoint_every
            n == Cardinality(InputKeys \ StoredKeys(store0))
            resolved == IF pc = "ckpt" THEN Len(accum) - 1 ELSE Len(accum)
            due == SelectSeq(ExpectedWrites(c, n), LAMBDA w : w.after <= resolved)
        IN /\ WritesSoFar = due
           /\ pc = "done" => WritesSoFar = ExpectedWrites(c, n)

\* seven keys and a checkpoint every three
C9_Witness ==
    /\ pc = "done"
    /\ cfg.checkpoint_every = 3
    /\ Len(to_fetch) = 7
    /\ WritesSoFar = <<[after |-> 3, rows |-> 3], [after |-> 6, rows |-> 3],
                       [after |-> 7, rows |-> 1]>>

(***************************************************************************)
(* C10  Rate limiting of gated calls.  With a rate R > 0 the rate gate     *)
(* releases the N-th of N consecutive keys at least (N - 1) / R after the  *)
(* first, however long the lookups take; with R <= 0 the gate never        *)
(* blocks.                                                                 *)
(***************************************************************************)
C10_GateSpacing ==
    /\ cfg.rate_limit_per_sec > 0 =>
         \A a, b \in DOMAIN gates :
            a < b => (gates[b].release - gates[a].release) * cfg.rate_limit_per_sec
                        >= (b - a) * TicksPerSec
    /\ cfg.rate_limit_per_sec <= 0 =>
         \A a \in DOMAIN gates : gates[a].slept = 0

\* three keys, the gate blocked for the second and not for the third
C10_Witness ==
    /\ cfg.rate_limit_per_sec > 0
    /\ Len(gates) = 3
    /\ gates[2].slept > 0
    /\ gates[3].slept = 0

(***************************************************************************)
(* C11  Global bound on the request rate.  With a rate R > 0, any two      *)
(* consecutive calls of a run to the remote service are sent at least 1/R  *)
(* apart: the retries for one key as well as the first call for the next   *)
(* key after a key that needed retries.                                    *)
(***************************************************************************)
C11_RequestSpacing ==
    (cfg.rate_limit_per_sec > 0 /\ Len(reqs) = 2) =>
        (reqs[2] - reqs[1]) * cfg.rate_limit_per_sec >= TicksPerSec

(***************************************************************************)
(* C12  Tolerant load.  Whatever the store file is when a run starts       *)
(* (missing, zero-length, header only, unparseable, or a table without the *)
(* key column), loading it and computing the keys already resolved does    *)
(* not fail the run, and every file that is not a valid store counts as    *)
(* empty: every key of the input is fetched.                               *)
(***************************************************************************)
ValidFile(file) ==
    /\ file.exists
    /\ getsize(file) > 0
    /\ Parseable(file)
    /\ file.lines[1].kind = "hdr"

C12_TolerantLoad ==
    runs >= 1 =>
        /\ pc # "failed"
        /\ ~ValidFile(store0) => to_fetch = unique_txids_from_csv(cfg.input)

(***************************************************************************)
(* C13  Resumable after corruption.  When a run starts with an unreadable  *)
(* store and completes, the records it returns after loading the store     *)
(* again hold a record for every key it resolved, and the next run calls   *)
(* robust_lookup for no key an earlier run wrote a record for.             *)
(***************************************************************************)
WrittenBefore(k) == CountFor(store0, k) > CountFor(first_store, k)

C13_ResumableAfterCorruption ==
    (runs >= 1 /\ first_store.exists /\ ~Parseable(first_store)) =>
        /\ (runs = 1 /\ pc = "done") =>
              \A n \in DOMAIN accum :
                  \E m \in DOMAIN final_df : final_df[m].txid = accum[n].txid
        /\ (runs = 2 /\ prevDone) =>
              \A n \in DOMAIN looked : ~WrittenBefore(looked[n])

(***************************************************************************)
(* C17  The header is written exactly once.  When the first run finds no   *)
(* store file or a zero-length one, then after any appends of any runs the *)
(* file holds one header line, its first line: the first append writes the *)
(* header and no later append does.                                        *)
(***************************************************************************)
Fresh(file) == IF file.exists THEN getsize(file) = 0 ELSE TRUE

HeaderLines(file) == {n \in DOMAIN file.lines : file.lines[n].kind = "hdr"}

C17_HeaderOnce ==
    Fresh(first_store) =>
        IF getsize(store) = 0
        THEN writes = <<>>
        ELSE HeaderLines(store) = {1}

\* two runs have appended to a store that was missing: the first was
\* interrupted after its checkpoint, the second wrote the other record
C17_Witness ==
    /\ ~first_store.exists
    /\ runs = 2
    /\ writes # <<>>
    /\ Len(store.lines) = 3
    /\ HeaderLines(store) = {1}

(***************************************************************************)
(* C14  robust_lookup always returns and the run always finishes.          *)
(* Whatever the calls for a key end in, robust_lookup makes at most        *)
(* max_retries + 1 of them and then returns a record for that key, raising *)
(* nothing, with error = None exactly when its last call succeeded; a key  *)
(* that fails does not stop the run: unless it is interrupted, the run     *)
(* goes on to the next key and in the end has a record for every key it    *)
(* had to fetch.                                                           *)
(***************************************************************************)
LookupReturns ==
    /\ Len(calls) <= cfg.max_retries + 1
    /\ pc # "failed"
    /\ pc \in {"ckpt", "clear"} => rec # None
    /\ rec # None =>
          /\ rec[1].txid = to_fetch[i]
          /\ rec[1] = accum[Len(accum)]
          /\ (rec[1].error = None) <=> (calls[Len(calls)] \in Successes)
    /\ pc = "done" => [n \in DOMAIN accum |-> accum[n].txid] = to_fetch

InNoBlock == {"unconfirmed", "nostatus", "emptystatus"}

UnconfirmedRecord(txid) == Record(txid, NoBlockFields, None)

C15_UnconfirmedNotError ==
    rec # None =>
        LET last == calls[Len(calls)]
        IN /\ last \in InNoBlock =>
                /\ rec = Some(UnconfirmedRecord(to_fetch[i]))
                /\ NoBlock(rec[1])
                /\ rec[1].error = None
           /\ last \notin Successes =>
                /\ HasError(rec[1])
                /\ rec[1] # UnconfirmedRecord(to_fetch[i])

\* an unconfirmed transaction, found at the retry after a 503
C15_Witness ==
    /\ calls = <<"503", "unconfirmed">>
    /\ rec = Some(UnconfirmedRecord(to_fetch[i]))
    /\ results_batch = <<UnconfirmedRecord(Key(1))>>

(***************************************************************************)
(* C16  The merge is a left join by key.  The merged output of a run that  *)
(* completes has one row per row of the input, in the order of the input,  *)
(* with the lookup fields of the record of the row's key when the store    *)
(* holds one and empty otherwise; also for rows that spell their key in    *)
(* upper case or with whitespace around it, and for rows that repeat a key.*)
(***************************************************************************)
KeyOf(cell) == lower(strip(cell))

RecordsOf(k) == {final_df[n] : n \in {m \in DOMAIN final_df : final_df[m].txid = k}}

C16_MergeLeftJoin ==
    (pc = "done" /\ cfg.merged_output_csv) =>
        /\ merged # None
        /\ Len(merged[1]) = Len(cfg.input)
        /\ \A n \in DOMAIN merged[1] \cap DOMAIN cfg.input :
              LET row == merged[1][n]
                  found == IF cfg.input[n] = NaN THEN {}
                           ELSE RecordsOf(KeyOf(cfg.input[n]))
              IN /\ row.cell = cfg.input[n]
                 /\ IF found = {} THEN row.lookup = None
                    ELSE row.lookup # None /\ row.lookup[1] \in found

(***************************************************************************)
(* C18  Configuration errors fail before any work.  When the backend named *)
(* is not in the registry or the input file has no identifier column, the  *)
(* run fails before it reads the store, before any call to the remote      *)
(* service and before any write: the store file is as it was.              *)
(***************************************************************************)
BadConfig ==
    IF KeyOf(cfg.api_source).id \in API_BASES THEN ~cfg.has_txid_column ELSE TRUE

C18_ConfigErrorsFailFirst ==
    (runs >= 1 /\ BadConfig) =>
        /\ pc = "failed"
        /\ ~loaded
        /\ looked = <<>>
        /\ reqs = <<>>
        /\ writes = <<>>
        /\ store = first_store
        /\ merged = None

\* a run over an input file without the identifier column has failed, and the
\* store that held a record holds it still
C18_Witness ==
    /\ pc = "failed"
    /\ cfg.api_source = Blockstream
    /\ ~cfg.has_txid_column
    /\ cfg.input # <<>>
    /\ ~loaded
    /\ store = ValidStore(1, "confirmed")

(***************************************************************************)
(* C19  The backoff does not decrease.  Of the sleeps robust_lookup takes  *)
(* between the calls for one key, every one is at least as long as the one *)
(* before it.                                                              *)
(***************************************************************************)
C19_BackoffNonDecreasing ==
    \A n \in DOMAIN naps : n > 1 => naps[n] >= naps[n - 1]

(***************************************************************************)
(* C20  Bounded unflushed work.  In every state of a run results_batch     *)
(* holds at most checkpoint_every records, and fewer when an iteration of  *)
(* the loop starts; its records are records of keys of this run that the   *)
(* store does not hold yet, in the loop up to the checkpoint's write and   *)
(* when the flush on the way out begins: what an interrupt leaves to that  *)
(* flush is at most checkpoint_every records that are not stored yet.      *)
(***************************************************************************)
BatchBounded ==
    /\ Len(results_batch) <= cfg.checkpoint_every
    /\ pc = "gate" => Len(results_batch) < cfg.checkpoint_every
    /\ \A n \in DOMAIN results_batch :
          /\ results_batch[n].txid \in Range(to_fetch)
          /\ results_batch[n].txid \notin StoredKeys(store0)

BatchUnflushed ==
    pc \in {"gate", "lookup", "ckpt", "finally"} =>
        \A n \in DOMAIN results_batch :
            results_batch[n].txid \notin StoredKeys(store)

C20_BoundedUnflushedWork == runs >= 1 => (BatchBounded /\ BatchUnflushed)

====
